---------------------------- MODULE Spec2Model ----------------------------
(***************************************************************************)
(* Client-side analytics / cart-abandonment engine of pmcell-site-2025     *)
(* (class Analytics, checkAbandonedCartGlobal, useAnalytics).              *)
(*                                                                         *)
(* Time is in milliseconds, as in the source (Date.now()).  A timer        *)
(* (setTimeout / setInterval) may run its callback at any time at or after *)
(* its due time: the event loop guarantees only the minimum delay.         *)
(*                                                                         *)
(* Per-entry timestamps (lastVisit, lastSearch, lastView), product names   *)
(* and prices are not part of the session record here: no operation        *)
(* modelled below reads them.                                              *)
(***************************************************************************)
EXTENDS Integers, Sequences, FiniteSets, Bags, TLC

VARIABLES
  now,                    \* Date.now()
  bootTime,               \* Date.now() at page load (never changes)
  analyticsInstance,      \* module-level singleton: "null" | "real"
  analytics,              \* Analytics.analytics, the in-memory session
  lastCall,               \* the most recent call into the engine and how it ended
  storage,                \* localStorage['pmcell_analytics']
  storageFull,            \* localStorage.setItem throws (quota exceeded)
  cartStorage,            \* localStorage['cart-storage']
  cartAbandonTimer,       \* Analytics.cartAbandonTimer (handle)
  abandonTimers,          \* pending abandonment timeouts (due times)
  serverSaveTimeout,      \* Analytics.serverSaveTimeout (handle)
  saveTimers,             \* pending debounce timeouts (due times)
  saveToServerRetryCount, \* Analytics.saveToServerRetryCount
  sends,                  \* saveAnalyticsToServer calls awaiting their fetch
  retryTimers,            \* pending backoff timeouts (due times)
  queue,                  \* localStorage['analytics_queue']
  passes,                 \* processLocalQueue calls in progress
  queueDue,               \* next run of the 2-minute setInterval
  webhooks,               \* sendWebhook calls in progress
  webhookSettings,        \* what GET /api/webhook-settings answers
  sweeps,                 \* checkAbandonedCartGlobal calls in progress
  sweepDue,               \* next run of the 30-second setInterval
  webhookLogs,            \* localStorage['webhookLogs'], newest first
  posts,                  \* history: POSTs sent to a webhook target
  syncLog,                \* history: what the sync engine did
  appended,               \* history: every cart event ever appended
  attempts,               \* history: failed sync attempts per queue item
  calls                   \* history: recorder calls made so far

vars == <<now, bootTime, analyticsInstance, analytics, lastCall, storage,
          storageFull, cartStorage, cartAbandonTimer, abandonTimers,
          serverSaveTimeout, saveTimers, saveToServerRetryCount, sends,
          retryTimers, queue, passes, queueDue, webhooks, webhookSettings,
          sweeps, sweepDue, webhookLogs, posts, syncLog, appended, attempts,
          calls>>

sessionVars == <<analyticsInstance, analytics, storage>>
abandonVars == <<cartAbandonTimer, abandonTimers>>
debounceVars == <<serverSaveTimeout, saveTimers>>
syncVars == <<saveToServerRetryCount, sends, retryTimers, syncLog>>
queueVars == <<queue, passes, queueDue, attempts>>
webhookVars == <<webhooks, webhookLogs, posts>>
sweepVars == <<sweeps, sweepDue>>
envVars == <<bootTime, storageFull, cartStorage, webhookSettings>>

-----------------------------------------------------------------------------
(* Program constants *)

CART_ABANDON_TIME == 1 * 60 * 1000
SESSION_MAX_AGE == 24 * 60 * 60 * 1000
DEBOUNCE_DELAY == 2000
MAX_SERVER_SAVE_RETRIES == 3
BACKOFF_BASE == 2500
MAX_CART_EVENTS == 100
MAX_PRODUCTS_VIEWED == 50
MAX_QUEUE_ITEMS == 50
SWEEP_INTERVAL == 30000
QUEUE_INTERVAL == 120000
SYNC_FETCH_TIMEOUT == 10000
QUEUE_FETCH_TIMEOUT == 8000
WEBHOOK_FETCH_TIMEOUT == 10000
WEBHOOK_MAX_RETRIES == 2
WEBHOOK_RETRY_PAUSE == 2000
MAX_WEBHOOK_LOGS == 50
QUEUE_NETWORK_CEILING == 3
QUEUE_SERVER_CEILING == 5

Null == -1                \* null / no handle
Undefined == "undefined"  \* the JavaScript value undefined

-----------------------------------------------------------------------------
(* Small helpers *)

Min(a, b) == IF a < b THEN a ELSE b
Max(a, b) == IF a > b THEN a ELSE b

\* Array.prototype.slice(-n): the last n elements
SliceLast(s, n) ==
  IF Len(s) <= n THEN s ELSE SubSeq(s, Len(s) - n + 1, Len(s))

\* Array.prototype.slice(0, n): the first n elements
SliceFirst(s, n) ==
  IF Len(s) <= n THEN s ELSE SubSeq(s, 1, n)

\* Array.prototype.find(e => e[field] === value): index of the first such
\* element, 0 if none
FindIndex(s, field, value) ==
  LET hits == {i \in 1..Len(s) : s[i][field] = value}
  IN IF hits = {} THEN 0 ELSE CHOOSE i \in hits : \A j \in hits : i <= j

\* a sort that leaves the array as it is
Unsorted(s, field) == s

RECURSIVE SortDesc(_, _)
\* Array.prototype.sort((a, b) => b[field] - a[field]): stable, descending
SortDesc(s, field) ==
  IF Len(s) = 0 THEN <<>>
  ELSE LET m == CHOOSE v \in {s[i][field] : i \in 1..Len(s)} :
                  \A i \in 1..Len(s) : s[i][field] <= v
       IN SelectSeq(s, LAMBDA e : e[field] = m)
            \o SortDesc(SelectSeq(s, LAMBDA e : e[field] # m), field)

-----------------------------------------------------------------------------
(* Strings that are normalised are tuples of one-character strings *)

ToLowerChar(c) == IF c = "A" THEN "a" ELSE c

\* String.prototype.toLowerCase
ToLowerCase(str) == [i \in 1..Len(str) |-> ToLowerChar(str[i])]

\* String.prototype.trim
Trim(str) ==
  LET solid == {i \in 1..Len(str) : str[i] # " "}
  IN IF solid = {} THEN <<>>
     ELSE LET lo == CHOOSE i \in solid : \A j \in solid : i <= j
              hi == CHOOSE i \in solid : \A j \in solid : j <= i
          IN SubSeq(str, lo, hi)

-----------------------------------------------------------------------------
(* Local Session Store *)

\* generateSessionId: Date.now().toString(36) + Math.random().toString(36)
GenerateSessionId(t, rnd) == <<t, rnd>>

\* createNewSession
CreateNewSession(t, rnd) ==
  [sessionId |-> GenerateSessionId(t, rnd),
   startTime |-> t,
   lastActivity |-> t,
   timeOnSite |-> 0,
   categoriesVisited |-> <<>>,
   searchTerms |-> <<>>,
   productsViewed |-> <<>>,
   cartEvents |-> <<>>,
   lastCartActivity |-> 0,
   whatsappCollected |-> Null,
   whatsappCollectedAt |-> Null]

\* JSON.stringify of one CategoryVisit: a property whose value is undefined
\* is left out of the text
StringifyCategory(c) ==
  IF c.categoryId = Undefined
  THEN [name |-> c.name, visits |-> c.visits, hasCartItems |-> c.hasCartItems]
  ELSE c

\* JSON.parse of one CategoryVisit: a property the text lacks reads undefined
ParseCategory(j) ==
  [name |-> j.name, visits |-> j.visits, hasCartItems |-> j.hasCartItems,
   categoryId |-> IF "categoryId" \in DOMAIN j THEN j.categoryId ELSE Undefined]

\* JSON.stringify(this.analytics): the text of a stored item
Stringify(a) ==
  [kind |-> "json",
   value |-> [a EXCEPT !.categoriesVisited =
                [i \in 1..Len(a.categoriesVisited) |->
                   StringifyCategory(a.categoriesVisited[i])]]]

\* JSON.parse(stored) of a well-formed item
Parse(item) ==
  [item.value EXCEPT !.categoriesVisited =
     [i \in 1..Len(item.value.categoriesVisited) |->
        ParseCategory(item.value.categoriesVisited[i])]]

\* localStorage.getItem on a key that was never set, and an item whose text
\* JSON.parse rejects
AbsentItem == [kind |-> "absent", value |-> <<>>]
CorruptItem == [kind |-> "corrupt", value |-> <<>>]

\* a load that already expires a session idle for exactly 24 hours
LoadExpiringEarly(item, t, rnd) ==
  IF item.kind = "absent"
  THEN [threw |-> FALSE, value |-> CreateNewSession(t, rnd)]
  ELSE IF item.kind = "corrupt"
  THEN [threw |-> TRUE, value |-> <<>>]
  ELSE IF t - Parse(item).lastActivity >= SESSION_MAX_AGE
  THEN [threw |-> FALSE, value |-> CreateNewSession(t, rnd)]
  ELSE [threw |-> FALSE, value |-> Parse(item)]

\* loadAnalytics: [threw, value]; JSON.parse throws on text that is not JSON
LoadAnalytics(item, t, rnd) ==
  IF item.kind = "absent"
  THEN [threw |-> FALSE, value |-> CreateNewSession(t, rnd)]
  ELSE IF item.kind = "corrupt"
  THEN [threw |-> TRUE, value |-> <<>>]
  ELSE LET parsed == Parse(item)
       IN IF t - parsed.lastActivity > SESSION_MAX_AGE
          THEN [threw |-> FALSE, value |-> CreateNewSession(t, rnd)]
          ELSE [threw |-> FALSE, value |-> parsed]

-----------------------------------------------------------------------------
(* A handler runs to completion on the event loop.  Its statements are      *)
(* operators on the record m of what it may change; m.threw is set by a    *)
(* statement that throws, and every later statement of the handler is then *)
(* skipped.                                                                *)

Cur ==
  [analytics |-> analytics, storage |-> storage,
   serverSaveTimeout |-> serverSaveTimeout, saveTimers |-> saveTimers,
   cartAbandonTimer |-> cartAbandonTimer, abandonTimers |-> abandonTimers,
   webhooks |-> webhooks, threw |-> FALSE]

CommitState(m) ==
  /\ analytics' = m.analytics
  /\ storage' = m.storage
  /\ serverSaveTimeout' = m.serverSaveTimeout
  /\ saveTimers' = m.saveTimers
  /\ cartAbandonTimer' = m.cartAbandonTimer
  /\ abandonTimers' = m.abandonTimers
  /\ webhooks' = m.webhooks

Commit(m, op) ==
  /\ CommitState(m)
  /\ lastCall' = [op |-> op, threw |-> m.threw, note |-> ""]

\* debouncedServerSave: clearTimeout(serverSaveTimeout); setTimeout(..., 2000)
DebouncedServerSave(m) ==
  [m EXCEPT !.saveTimers = (@ \ {m.serverSaveTimeout}) \cup {now + DEBOUNCE_DELAY},
            !.serverSaveTimeout = now + DEBOUNCE_DELAY]

\* saveAnalytics: localStorage.setItem (throws when the quota is exceeded),
\* then debouncedServerSave
SaveAnalytics(m) ==
  IF m.threw THEN m
  ELSE IF storageFull THEN [m EXCEPT !.threw = TRUE]
  ELSE DebouncedServerSave([m EXCEPT !.storage = Stringify(m.analytics)])

\* updateLastActivity
UpdateLastActivity(m) ==
  IF m.threw THEN m
  ELSE SaveAnalytics([m EXCEPT !.analytics.lastActivity = now,
                               !.analytics.timeOnSite = now - m.analytics.startTime])

-----------------------------------------------------------------------------
(* Webhook dispatch and the abandonment timer, as far as a recorder runs    *)
(* them synchronously                                                      *)

\* sendWebhook(eventType, data) up to its first await (the settings fetch).
\* path, activity and call say who dispatched: the path that fired, the
\* lastCartActivity it fired for, and the recorder calls made before it
SendWebhook(m, eventType, path, activity) ==
  IF m.threw THEN m
  ELSE [m EXCEPT !.webhooks = @ (+) SetToBag({[event |-> eventType, pc |-> "settings",
                                               retryCount |-> 0, path |-> path,
                                               activity |-> activity, call |-> calls,
                                               environment |-> "", due |-> 0]})]

\* cart.state?.items?.length > 0 on the parsed 'cart-storage' item
CartHasItems == cartStorage = "itemsState"

\* sendCartAbandonedWebhook: dispatches only when the persisted cart has items
SendCartAbandonedWebhook(m, path) ==
  IF m.threw THEN m
  ELSE IF CartHasItems
  THEN SendWebhook(m, "cartAbandoned", path, m.analytics.lastCartActivity)
  ELSE m

\* a clearTimeout that cancels nothing
ClearNothing(timers, handle) == timers

\* clearTimeout(handle): the pending timeouts after it
ClearTimeout(timers, handle) == timers \ {handle}

\* setupCartAbandonTimer when its Date.now() reads t
SetupCartAbandonTimerAt(m, t) ==
  IF m.threw THEN m
  ELSE LET cleared == ClearTimeout(m.abandonTimers, m.cartAbandonTimer)
           remainingTime == CART_ABANDON_TIME - (t - m.analytics.lastCartActivity)
       IN IF m.analytics.lastCartActivity > 0 /\ remainingTime > 0
          THEN [m EXCEPT !.abandonTimers = cleared \cup {t + remainingTime},
                         !.cartAbandonTimer = t + remainingTime]
          ELSE [m EXCEPT !.abandonTimers = cleared]

\* setupCartAbandonTimer
SetupCartAbandonTimer(m) == SetupCartAbandonTimerAt(m, now)

\* checkForAbandonedCart (the one-shot check of the constructor); everything
\* it runs is inside its try/catch
CheckForAbandonedCart(m) ==
  IF m.threw THEN m
  ELSE IF CartHasItems /\ m.analytics.lastCartActivity # 0
          /\ now - m.analytics.lastCartActivity >= CART_ABANDON_TIME
  THEN LET m1 == SendCartAbandonedWebhook(m, "init")
           m2 == SaveAnalytics([m1 EXCEPT !.analytics.lastCartActivity = 0])
       IN [m2 EXCEPT !.threw = FALSE]
  ELSE m

-----------------------------------------------------------------------------
(* Event Recorders: the statements of each handler *)

\* trackCategoryVisit
CategoryVisitBody(m, categoryName, categoryId) ==
  LET m1 == UpdateLastActivity(m)
      cats == m1.analytics.categoriesVisited
      i == FindIndex(cats, "name", categoryName)
      updated ==
        IF i # 0
        THEN [cats EXCEPT ![i].visits = @ + 1,
                          ![i].categoryId =
                            IF categoryId # Undefined THEN categoryId ELSE @]
        ELSE Append(cats, [name |-> categoryName, visits |-> 1,
                           hasCartItems |-> FALSE, categoryId |-> categoryId])
  IN IF m1.threw THEN m1
     ELSE SaveAnalytics([m1 EXCEPT !.analytics.categoriesVisited =
                                      SortDesc(updated, "visits")])

\* a find-or-create that never finds
UpsertAlwaysCreates(terms, term) == Append(terms, [term |-> term, count |-> 1])

\* the search-term collection after find-or-create on the normalised term
UpsertSearchTerm(terms, term) ==
  LET i == FindIndex(terms, "term", term)
  IN IF i # 0
     THEN [terms EXCEPT ![i].count = @ + 1]
     ELSE Append(terms, [term |-> term, count |-> 1])

\* trackSearch
SearchBody(m, searchTerm) ==
  LET m1 == UpdateLastActivity(m)
      term == Trim(ToLowerCase(searchTerm))
  IN IF m1.threw \/ term = <<>> THEN m1
     ELSE SaveAnalytics([m1 EXCEPT !.analytics.searchTerms =
                           SortDesc(UpsertSearchTerm(@, term), "count")])

\* a find-or-create whose increment forgets that the product went to the cart
UpsertForgettingCart(products, productId, category) ==
  LET i == FindIndex(products, "id", productId)
  IN IF i # 0
     THEN [products EXCEPT ![i].visits = @ + 1, ![i].addedToCart = FALSE]
     ELSE Append(products, [id |-> productId, category |-> category,
                            visits |-> 1, addedToCart |-> FALSE])

\* the product collection after find-or-create, before the sort
UpsertProduct(products, productId, category) ==
  LET i == FindIndex(products, "id", productId)
  IN IF i # 0
     THEN [products EXCEPT ![i].visits = @ + 1]
     ELSE Append(products, [id |-> productId, category |-> category,
                            visits |-> 1, addedToCart |-> FALSE])

\* trackProductView
ProductViewBody(m, productId, category) ==
  LET m1 == UpdateLastActivity(m)
  IN IF m1.threw THEN m1
     ELSE SaveAnalytics([m1 EXCEPT !.analytics.productsViewed =
            SliceFirst(SortDesc(UpsertProduct(@, productId, category), "visits"),
                       MAX_PRODUCTS_VIEWED)])

\* the flags an 'add' event sets: addedToCart on the viewed product and
\* hasCartItems on the visited category of that product
MarkAddedToCart(a, productId) ==
  LET pi == FindIndex(a.productsViewed, "id", productId)
      ci == IF pi = 0 THEN 0
            ELSE FindIndex(a.categoriesVisited, "name", a.productsViewed[pi].category)
      a1 == IF pi = 0 THEN a
            ELSE [a EXCEPT !.productsViewed[pi].addedToCart = TRUE]
  IN IF ci = 0 THEN a1
     ELSE [a1 EXCEPT !.categoriesVisited[ci].hasCartItems = TRUE]

\* the event trackCartEvent appends
NewCartEvent(type, productId, quantity) ==
  [type |-> type, productId |-> productId, quantity |-> quantity,
   timestamp |-> now]

\* a slice that keeps the oldest events instead of the most recent
TruncateKeepingOldest(events) == SliceFirst(events, MAX_CART_EVENTS)

\* this.analytics.cartEvents.slice(-100)
TruncateCartEvents(events) == SliceLast(events, MAX_CART_EVENTS)

\* trackCartEvent (saveCartToServer, its last statement, is a fire-and-forget
\* POST inside its own try/catch and changes nothing here)
CartEventBody(m, type, productId, quantity) ==
  LET m1 == UpdateLastActivity(m)
      a1 == [m1.analytics EXCEPT
               !.cartEvents = Append(@, NewCartEvent(type, productId, quantity)),
               !.lastCartActivity = now]
      a2 == IF type = "add" THEN MarkAddedToCart(a1, productId) ELSE a1
      a3 == [a2 EXCEPT !.cartEvents = TruncateCartEvents(@)]
  IN IF m1.threw THEN m1
     ELSE SetupCartAbandonTimer(SaveAnalytics([m1 EXCEPT !.analytics = a3]))

\* trackWhatsAppCollection
WhatsAppBody(m, whatsapp) ==
  LET m1 == UpdateLastActivity(m)
  IN IF m1.threw THEN m1
     ELSE SendWebhook(
            SaveAnalytics([m1 EXCEPT !.analytics.whatsappCollected = whatsapp,
                                     !.analytics.whatsappCollectedAt = now]),
            "whatsappCollected", "recorder", 0)

\* trackOrderCompletion (markCartAsCompleted, its last statement, is a
\* fire-and-forget POST inside its own try/catch)
OrderCompletionBody(m) ==
  LET m1 == UpdateLastActivity(m)
      m2 == IF m1.cartAbandonTimer # Null
            THEN [m1 EXCEPT !.abandonTimers = @ \ {m1.cartAbandonTimer},
                            !.cartAbandonTimer = Null]
            ELSE m1
  IN IF m1.threw THEN m1
     ELSE SendWebhook(m2, "orderCompleted", "recorder", 0)

-----------------------------------------------------------------------------
(* The asynchronous routines up to their first await *)

\* checkAbandonedCartGlobal up to its first await, its Date.now() reading t:
\* the sweeps in progress after a run that reads item from
\* 'pmcell_analytics'.  A run that goes on keeps the session it parsed
SweepBeginAt(item, running, t) ==
  IF CartHasItems /\ item.kind = "json"
     /\ Parse(item).lastCartActivity # 0
     /\ t - Parse(item).lastCartActivity >= CART_ABANDON_TIME
  THEN running (+) SetToBag({[pc |-> "settings", analytics |-> Parse(item)]})
  ELSE running

SweepBegin(item, running) == SweepBeginAt(item, running, now)

\* processLocalQueue up to its first await, started at t: the passes in
\* progress after a run that reads q from 'analytics_queue'.  A pass keeps the
\* array it parsed (queue), which it changes as it goes; read is the history
\* of what it parsed
ProcessBeginAt(q, running, t) ==
  IF Len(q) = 0 THEN running
  ELSE running (+) SetToBag({[queue |-> q, i |-> 1, read |-> q,
                              deadline |-> t + QUEUE_FETCH_TIMEOUT]})

ProcessBegin(q, running) == ProcessBeginAt(q, running, now)

-----------------------------------------------------------------------------
(* useAnalytics() with no instance yet: new Analytics(), then                *)
(* startPeriodicAbandonmentCheck(); the mock instance when the constructor  *)
(* throws                                                                  *)

\* the statements of the constructor after loadAnalytics.  The one-shot check
\* and the arming each read Date.now(); t is what the arming reads
ConstructorBody(m, t) ==
  SetupCartAbandonTimerAt(CheckForAbandonedCart(UpdateLastActivity(m)), t)

\* how the session of a new instance came about
LoadNote(item, t) ==
  IF item.kind = "absent" THEN "absent"
  ELSE IF t - Parse(item).lastActivity > SESSION_MAX_AGE THEN "expired"
  ELSE "loaded"

\* useAnalytics() while the clock advances by lag milliseconds between the
\* Date.now() of the one-shot check and the Date.now() of the arming
Construct(rnd, lag) ==
  /\ analyticsInstance = "null"
  /\ LET loaded == LoadAnalytics(storage, now, rnd)
         m == IF loaded.threw THEN [Cur EXCEPT !.threw = TRUE]
              ELSE ConstructorBody([Cur EXCEPT !.analytics = loaded.value],
                                   now + lag)
     IN IF m.threw
        THEN /\ lastCall' = [op |-> "useAnalytics", threw |-> FALSE,
                             note |-> IF loaded.threw THEN "loadThrew"
                                      ELSE "saveThrew"]
             /\ UNCHANGED <<now, sessionVars, abandonVars, debounceVars,
                            queueVars, sweepVars, webhooks, appended>>
        ELSE /\ CommitState(m)
             /\ lastCall' = [op |-> "useAnalytics", threw |-> FALSE,
                             note |-> LoadNote(storage, now)]
             /\ analyticsInstance' = "real"
             /\ appended' = m.analytics.cartEvents
             /\ now' = now + lag
             /\ passes' = ProcessBeginAt(queue, passes, now + lag)
             /\ queueDue' = now + lag + QUEUE_INTERVAL
             /\ sweeps' = SweepBeginAt(m.storage, sweeps, now + lag)
             /\ sweepDue' = now + lag + SWEEP_INTERVAL
             /\ UNCHANGED <<queue, attempts>>
  /\ UNCHANGED <<envVars, syncVars, webhookLogs, posts, calls>>

\* useAnalytics() with one reading of the clock throughout
UseAnalytics(rnd) == Construct(rnd, 0)

-----------------------------------------------------------------------------
(* Event Recorders: the calls the application makes on the instance *)

\* what no recorder changes
recorderFrame == <<now, envVars, analyticsInstance, syncVars, queueVars,
                   sweepVars, webhookLogs, posts>>

TrackCategoryVisit(categoryName, categoryId) ==
  /\ analyticsInstance = "real"
  /\ Commit(CategoryVisitBody(Cur, categoryName, categoryId), "trackCategoryVisit")
  /\ calls' = calls + 1
  /\ UNCHANGED <<recorderFrame, appended>>

TrackSearch(searchTerm) ==
  /\ analyticsInstance = "real"
  /\ Commit(SearchBody(Cur, searchTerm), "trackSearch")
  /\ calls' = calls + 1
  /\ UNCHANGED <<recorderFrame, appended>>

TrackProductView(productId, category) ==
  /\ analyticsInstance = "real"
  /\ Commit(ProductViewBody(Cur, productId, category), "trackProductView")
  /\ calls' = calls + 1
  /\ UNCHANGED <<recorderFrame, appended>>

TrackCartEvent(type, productId, quantity) ==
  /\ analyticsInstance = "real"
  /\ LET m == CartEventBody(Cur, type, productId, quantity)
     IN /\ Commit(m, "trackCartEvent")
        /\ appended' = IF m.threw THEN appended
                       ELSE Append(appended, NewCartEvent(type, productId, quantity))
  /\ calls' = calls + 1
  /\ UNCHANGED recorderFrame

TrackWhatsAppCollection(whatsapp) ==
  /\ analyticsInstance = "real"
  /\ Commit(WhatsAppBody(Cur, whatsapp), "trackWhatsAppCollection")
  /\ calls' = calls + 1
  /\ UNCHANGED <<recorderFrame, appended>>

TrackOrderCompletion ==
  /\ analyticsInstance = "real"
  /\ Commit(OrderCompletionBody(Cur), "trackOrderCompletion")
  /\ calls' = calls + 1
  /\ UNCHANGED <<recorderFrame, appended>>

-----------------------------------------------------------------------------
(* The environment *)

\* time passes; a fetch that has an abort timer is answered (at the latest by
\* its AbortError) before its deadline is over
Tick(d, horizon) ==
  /\ now + d <= bootTime + horizon
  /\ \A s \in BagToSet(sends) : now + d <= s.deadline
  /\ \A p \in BagToSet(passes) : now + d <= p.deadline
  /\ \A w \in BagToSet(webhooks) : w.pc = "post" => now + d <= w.due
  /\ now' = now + d
  /\ UNCHANGED <<envVars, sessionVars, lastCall, abandonVars, debounceVars,
                 syncVars, queueVars, webhookVars, sweepVars, appended, calls>>

\* the origin's storage quota fills up or is freed by other code of the page
SetStorageFull(b) ==
  /\ storageFull # b
  /\ storageFull' = b
  /\ UNCHANGED <<now, bootTime, cartStorage, webhookSettings, sessionVars,
                 lastCall, abandonVars, debounceVars, syncVars, queueVars,
                 webhookVars, sweepVars, appended, calls>>

\* the cart store (its owner is the storefront) rewrites 'cart-storage'
SetCartStorage(c) ==
  /\ cartStorage # c
  /\ cartStorage' = c
  /\ UNCHANGED <<now, bootTime, storageFull, webhookSettings, sessionVars,
                 lastCall, abandonVars, debounceVars, syncVars, queueVars,
                 webhookVars, sweepVars, appended, calls>>

-----------------------------------------------------------------------------
(* Abandonment Detector: the armed timer and the periodic sweep *)

\* the time of the most recent cart event recorded (0 when there is none)
LastEventTime ==
  IF appended = <<>> THEN 0 ELSE appended[Len(appended)].timestamp

\* one POST to a webhook target, as the history keeps it
Dispatch(event, call, path, activity, attempt, target) ==
  [event |-> event, call |-> call, path |-> path, at |-> now,
   activity |-> activity, attempt |-> attempt, lastEvent |-> LastEventTime,
   target |-> target]

\* the callback of the timer armed by setupCartAbandonTimer
AbandonTimerFire ==
  /\ analyticsInstance = "real"
  /\ \E d \in abandonTimers :
       /\ d <= now
       /\ LET m0 == [Cur EXCEPT !.abandonTimers = @ \ {d}]
              m1 == SendCartAbandonedWebhook(m0, "timer")
              m2 == SaveAnalytics([m1 EXCEPT !.analytics.lastCartActivity = 0])
          IN CommitState(m2)
  /\ UNCHANGED <<now, envVars, analyticsInstance, lastCall, syncVars, queueVars,
                 sweepVars, webhookLogs, posts, appended, calls>>

\* the 30-second interval of startPeriodicAbandonmentCheck runs
\* checkAbandonedCartGlobal
SweepTick ==
  /\ sweepDue # Null /\ sweepDue <= now
  /\ sweeps' = SweepBegin(storage, sweeps)
  /\ sweepDue' = now + SWEEP_INTERVAL
  /\ UNCHANGED <<now, envVars, sessionVars, lastCall, abandonVars, debounceVars,
                 syncVars, queueVars, webhookVars, appended, calls>>

\* response.ok && cartSetting?.enabled in checkAbandonedCartGlobal
SweepEnabled(ws) == ws.fetch = "ok" /\ ws.enabled

\* the webhookUrl of checkAbandonedCartGlobal
SweepTarget(ws) ==
  IF ws.environment = "PRODUCTION" THEN "webhook" ELSE "webhook-test"

\* checkAbandonedCartGlobal from the answer of GET /api/webhook-settings to
\* its POST: it goes on with what it read before the await
SweepSettings(s) ==
  /\ s \in BagToSet(sweeps) /\ s.pc = "settings"
  /\ IF SweepEnabled(webhookSettings)
     THEN /\ sweeps' = (sweeps (-) SetToBag({s}))
                         (+) SetToBag({[s EXCEPT !.pc = "post"]})
          /\ posts' = Append(posts,
                        Dispatch("cartAbandoned", calls, "sweep",
                                 s.analytics.lastCartActivity, 0,
                                 SweepTarget(webhookSettings)))
     ELSE /\ sweeps' = sweeps (-) SetToBag({s})
          /\ posts' = posts
  /\ UNCHANGED <<now, envVars, sessionVars, lastCall, abandonVars, debounceVars,
                 syncVars, queueVars, webhooks, webhookLogs, sweepDue, appended,
                 calls>>

\* checkAbandonedCartGlobal from the answer to its POST: on success it writes
\* the session it parsed at its start, lastCartActivity zeroed, to storage
SweepResponse(s, ok) ==
  /\ s \in BagToSet(sweeps) /\ s.pc = "post"
  /\ sweeps' = sweeps (-) SetToBag({s})
  /\ storage' = IF ok /\ ~storageFull
                THEN Stringify([s.analytics EXCEPT !.lastCartActivity = 0])
                ELSE storage
  /\ UNCHANGED <<now, envVars, analyticsInstance, analytics, lastCall,
                 abandonVars, debounceVars, syncVars, queueVars, webhookVars,
                 sweepDue, appended, calls>>

-----------------------------------------------------------------------------
(* Webhook Dispatcher: sendWebhook after its first await *)

\* String.prototype.toLowerCase on the environment column
LowerEnvironment(e) ==
  IF e = "PRODUCTION" THEN "production"
  ELSE IF e = "TEST" THEN "test" ELSE e

\* getWebhookSettings()[eventType]
WebhookConfig(ws) ==
  IF ws.fetch = "ok"
  THEN LET environment == LowerEnvironment(ws.environment)
       IN IF ws.isDevelopment
          THEN [enabled |-> ws.enabled, environment |-> environment]
          ELSE [enabled |-> ws.enabled /\ environment = "production",
                environment |-> environment]
  ELSE IF ws.isDevelopment
  THEN [enabled |-> FALSE, environment |-> "test"]
  ELSE [enabled |-> TRUE, environment |-> "production"]

\* the baseUrl of sendWebhook
DispatcherTarget(ws) ==
  IF WebhookConfig(ws).environment = "production" THEN "webhook"
  ELSE "webhook-test"

\* sendWebhook from the answer of getWebhookSettings to its POST
WebhookSettingsResolve(w) ==
  /\ w \in BagToSet(webhooks) /\ w.pc = "settings"
  /\ LET webhookConfig == WebhookConfig(webhookSettings)
     IN IF ~webhookConfig.enabled
        THEN /\ webhooks' = webhooks (-) SetToBag({w})
             /\ posts' = posts
        ELSE /\ webhooks' = (webhooks (-) SetToBag({w}))
                              (+) SetToBag({[w EXCEPT !.pc = "post",
                                    !.environment = webhookConfig.environment,
                                    !.due = now + WEBHOOK_FETCH_TIMEOUT]})
             /\ posts' = Append(posts,
                           Dispatch(w.event, w.call, w.path, w.activity,
                                    w.retryCount,
                                    DispatcherTarget(webhookSettings)))
  /\ UNCHANGED <<now, envVars, sessionVars, lastCall, abandonVars, debounceVars,
                 syncVars, queueVars, sweepVars, webhookLogs, appended, calls>>

\* logWebhook: the delivery log after one more entry
LogWebhook(logs, webhook, environment) ==
  SliceFirst(<<[webhook |-> webhook, environment |-> environment]>> \o logs,
             MAX_WEBHOOK_LOGS)

\* a loop that allows one attempt more
RetriesLeftOnceMore(retryCount) == retryCount <= WEBHOOK_MAX_RETRIES + 1

\* retryCount <= maxRetries, the condition of the loop and of its pause
RetriesLeft(retryCount) == retryCount <= WEBHOOK_MAX_RETRIES

\* sendWebhook from the answer to its POST: done on a 2xx whose logWebhook
\* write succeeds, else the catch block counts the attempt
WebhookResponse(w, ok) ==
  /\ w \in BagToSet(webhooks) /\ w.pc = "post"
  /\ webhooks' =
       IF ok /\ ~storageFull
       THEN webhooks (-) SetToBag({w})
       ELSE IF RetriesLeft(w.retryCount + 1)
       THEN (webhooks (-) SetToBag({w}))
              (+) SetToBag({[w EXCEPT !.pc = "pause",
                                      !.retryCount = @ + 1,
                                      !.due = now + WEBHOOK_RETRY_PAUSE]})
       ELSE webhooks (-) SetToBag({w})
  /\ webhookLogs' = IF ok /\ ~storageFull
                    THEN LogWebhook(webhookLogs, w.event, w.environment)
                    ELSE webhookLogs
  /\ UNCHANGED <<now, envVars, sessionVars, lastCall, abandonVars, debounceVars,
                 syncVars, queueVars, sweepVars, posts, appended, calls>>

\* sendWebhook after its 2-second pause: the next turn of the loop
WebhookRetry(w) ==
  /\ w \in BagToSet(webhooks) /\ w.pc = "pause" /\ w.due <= now
  /\ webhooks' = (webhooks (-) SetToBag({w}))
                   (+) SetToBag({[w EXCEPT !.pc = "settings", !.due = 0]})
  /\ UNCHANGED <<now, envVars, sessionVars, lastCall, abandonVars, debounceVars,
                 syncVars, queueVars, sweepVars, webhookLogs, posts, appended,
                 calls>>

\* the timer of the 2-second pause runs down: time passes while a sendWebhook
\* call waits for it
PauseElapses ==
  /\ \E w \in BagToSet(webhooks) : w.pc = "pause" /\ w.due > now
  /\ Tick(WEBHOOK_RETRY_PAUSE, (now - bootTime) + WEBHOOK_RETRY_PAUSE)

-----------------------------------------------------------------------------
(* Server Sync Engine *)

RECURSIVE Pow(_, _)
\* Math.pow
Pow(b, n) == IF n = 0 THEN 1 ELSE b * Pow(b, n - 1)

\* what a fetch of /api/analytics/save can end in
FetchOutcomes ==
  {"ok", "fallback503", "unavailable503", "http500", "http404",
   "abort", "failedToFetch", "loadFailed"}

\* the Error the catch block sees: its name and the substrings of its message
\* that the code looks for.  'HTTP 500: ...' holds a '5'; 'Failed to fetch'
\* holds 'fetch'; 'Load failed', 'HTTP 404: Not Found' and
\* 'Service Unavailable: Service Unavailable' hold none of them
ErrorOf(outcome) ==
  IF outcome = "abort" THEN [name |-> "AbortError", message |-> {}]
  ELSE IF outcome = "failedToFetch" THEN [name |-> "TypeError", message |-> {"fetch"}]
  ELSE IF outcome = "http500" THEN [name |-> "Error", message |-> {"5"}]
  ELSE IF outcome = "loadFailed" THEN [name |-> "TypeError", message |-> {}]
  ELSE [name |-> "Error", message |-> {}]

\* String.prototype.includes on an error message
Includes(message, part) == part \in message

IsNetworkError(error) ==
  \/ error.name = "AbortError"
  \/ Includes(error.message, "fetch")
  \/ Includes(error.message, "network")
  \/ Includes(error.message, "timeout")

IsServerError(error) == Includes(error.message, "5")

\* a trim that keeps the oldest items instead of the most recent
TruncateQueueKeepingOldest(q) == SliceFirst(q, MAX_QUEUE_ITEMS)

\* queue.slice(-50)
TruncateQueue(q) == SliceLast(q, MAX_QUEUE_ITEMS)

\* saveToLocalQueue: the stored queue after it (a failed write is swallowed)
SaveToLocalQueue(q) ==
  IF storageFull THEN q
  ELSE TruncateQueue(Append(q, [sessionId |-> analytics.sessionId,
                                timestamp |-> now,
                                data |-> Stringify(analytics).value,
                                retries |-> 0]))

\* one step of the sync engine, as the history keeps it
LogEntry(kind, outcome, due, posted, queued, count) ==
  [kind |-> kind, outcome |-> outcome, due |-> due,
   posted |-> posted, queued |-> queued, count |-> count]

\* the history after entry e: the most recent step, and the three most recent
\* answers to a sync send
Logged(e) ==
  [last |-> e,
   responses |-> IF e.kind = "response"
                 THEN SliceLast(Append(syncLog.responses, e), 3)
                 ELSE syncLog.responses]

\* saveAnalyticsToServer up to its fetch, called from the timer named by kind
StartSend(kind, due) ==
  IF saveToServerRetryCount >= MAX_SERVER_SAVE_RETRIES
  THEN /\ queue' = SaveToLocalQueue(queue)
       /\ sends' = sends
       /\ syncLog' = Logged(LogEntry(kind, "", due, FALSE, TRUE, saveToServerRetryCount))
  ELSE /\ queue' = queue
       /\ sends' = sends (+) SetToBag({[deadline |-> now + SYNC_FETCH_TIMEOUT]})
       /\ syncLog' = Logged(LogEntry(kind, "", due, TRUE, FALSE, saveToServerRetryCount))

\* the callback of the debounce timer
DebounceFire ==
  /\ \E d \in saveTimers :
       /\ d <= now
       /\ saveTimers' = saveTimers \ {d}
       /\ StartSend("debounce", d)
  /\ UNCHANGED <<now, envVars, sessionVars, lastCall, abandonVars,
                 serverSaveTimeout, saveToServerRetryCount, retryTimers,
                 passes, queueDue, attempts, webhookVars, sweepVars,
                 appended, calls>>

\* the callback of a backoff timer
RetryFire ==
  /\ \E d \in BagToSet(retryTimers) :
       /\ d <= now
       /\ retryTimers' = retryTimers (-) SetToBag({d})
       /\ StartSend("retry", d)
  /\ UNCHANGED <<now, envVars, sessionVars, lastCall, abandonVars,
                 debounceVars, saveToServerRetryCount, passes, queueDue,
                 attempts, webhookVars, sweepVars, appended, calls>>

\* a 503 is never taken for the fallback answer
NeverFallback(outcome) == FALSE

\* response.status === 503 with responseData.fallback set
IsFallback(outcome) == outcome = "fallback503"

\* saveAnalyticsToServer from the end of its fetch
SendResponse(s, outcome) ==
  /\ s \in BagToSet(sends)
  /\ sends' = sends (-) SetToBag({s})
  /\ IF outcome = "ok"
     THEN /\ saveToServerRetryCount' = 0
          /\ passes' = ProcessBegin(queue, passes)
          /\ syncLog' = Logged(LogEntry("response", outcome, 0, FALSE, FALSE, 0))
          /\ UNCHANGED <<queue, retryTimers>>
     ELSE IF IsFallback(outcome)
     THEN /\ saveToServerRetryCount' = 0
          /\ syncLog' = Logged(LogEntry("response", outcome, 0, FALSE, FALSE, 0))
          /\ UNCHANGED <<queue, retryTimers, passes>>
     ELSE LET count == saveToServerRetryCount + 1
              error == ErrorOf(outcome)
              again == count < MAX_SERVER_SAVE_RETRIES
                         /\ (IsNetworkError(error) \/ IsServerError(error))
          IN /\ saveToServerRetryCount' = count
             /\ retryTimers' =
                  IF again
                  THEN retryTimers (+) SetToBag({now + Pow(2, count) * BACKOFF_BASE})
                  ELSE retryTimers
             /\ queue' = IF again THEN queue ELSE SaveToLocalQueue(queue)
             /\ syncLog' = Logged(LogEntry("response", outcome, 0, FALSE, ~again, count))
             /\ passes' = passes
  /\ UNCHANGED <<now, envVars, sessionVars, lastCall, abandonVars,
                 debounceVars, queueDue, attempts, webhookVars, sweepVars,
                 appended, calls>>

-----------------------------------------------------------------------------
(* Local Queue *)

\* Array.prototype.splice(i, 1)
Splice(q, i) == SubSeq(q, 1, i - 1) \o SubSeq(q, i + 1, Len(q))

\* the local array of a pass after the fetch for its item i ended in outcome
AfterAttempt(q, i, outcome) ==
  LET retries == q[i].retries + 1
      counted == [q EXCEPT ![i].retries = retries]
      error == ErrorOf(outcome)
  IN IF outcome \in {"ok", "fallback503"} THEN Splice(q, i)
     ELSE IF outcome = "unavailable503"
     THEN IF retries > QUEUE_NETWORK_CEILING THEN Splice(q, i) ELSE counted
     ELSE IF outcome \in {"http500", "http404"}
     THEN IF retries > QUEUE_SERVER_CEILING THEN Splice(q, i) ELSE counted
     ELSE IF error.name = "AbortError" \/ Includes(error.message, "fetch")
     THEN IF retries > QUEUE_NETWORK_CEILING THEN Splice(q, i) ELSE counted
     ELSE Splice(q, i)

\* processLocalQueue from the end of the fetch for its current item to its
\* next await or, after the last item, to its write of the queue
PassResponse(p, outcome) ==
  /\ p \in BagToSet(passes)
  /\ LET q1 == AfterAttempt(p.queue, p.i, outcome)
         i1 == IF Len(q1) < Len(p.queue) THEN p.i ELSE p.i + 1
     IN /\ IF i1 > Len(q1)
           THEN /\ passes' = passes (-) SetToBag({p})
                /\ queue' = IF storageFull THEN queue ELSE q1
           ELSE /\ passes' = (passes (-) SetToBag({p}))
                               (+) SetToBag({[queue |-> q1, i |-> i1,
                                     read |-> p.read,
                                     deadline |-> now + QUEUE_FETCH_TIMEOUT]})
                /\ queue' = queue
        /\ attempts' = IF outcome \in {"ok", "fallback503"} THEN attempts
                       ELSE Append(attempts, p.queue[p.i].timestamp)
  /\ UNCHANGED <<now, envVars, sessionVars, lastCall, abandonVars,
                 debounceVars, syncVars, queueDue, webhookVars, sweepVars,
                 appended, calls>>

\* the 2-minute interval of the constructor runs processLocalQueue
QueueIntervalFire ==
  /\ queueDue # Null /\ queueDue <= now
  /\ passes' = ProcessBegin(queue, passes)
  /\ queueDue' = now + QUEUE_INTERVAL
  /\ UNCHANGED <<now, envVars, sessionVars, lastCall, abandonVars,
                 debounceVars, syncVars, queue, attempts, webhookVars,
                 sweepVars, appended, calls>>

-----------------------------------------------------------------------------
(* Bounds and the inputs drawn from them *)

MaxCalls == 2          \* recorder calls per run
MaxTermLen == 3        \* characters of a search term

Rands == {"r1"}
Categories == {"c1", "c2"}
CategoryIds == {Undefined, "id1"}
Products == {"p1", "p2"}
CartTypes == {"add", "remove", "update"}
Chars == {" ", "A", "a"}
Whatsapp == 5511

\* every string of at most n characters
Strings(n) == UNION {[1..k -> Chars] : k \in 0..n}

-----------------------------------------------------------------------------
(* The state at page load *)

\* a session an earlier page load left in storage: n cart events, the last
\* activity at 5000
StoredSession(n) ==
  [sessionId |-> GenerateSessionId(1000, "r0"),
   startTime |-> 1000,
   lastActivity |-> 5000,
   timeOnSite |-> 4000,
   categoriesVisited |-> <<[name |-> "c1", visits |-> 2, hasCartItems |-> FALSE,
                            categoryId |-> Undefined]>>,
   searchTerms |-> <<[term |-> <<"a">>, count |-> 1]>>,
   productsViewed |-> <<[id |-> "p1", category |-> "c1", visits |-> 1,
                         addedToCart |-> FALSE]>>,
   cartEvents |-> [i \in 1..n |-> [type |-> "add", productId |-> "p1",
                                   quantity |-> 1, timestamp |-> 3000 + i]],
   lastCartActivity |-> IF n = 0 THEN 0 ELSE 3000 + n,
   whatsappCollected |-> Null,
   whatsappCollectedAt |-> Null]

\* a session whose product collection is full (50 products, none of them one
\* of Products) and whose cart-event log is one short of full
FullSession ==
  [StoredSession(MAX_CART_EVENTS - 1) EXCEPT
     !.productsViewed =
        [i \in 1..MAX_PRODUCTS_VIEWED |->
           [id |-> "q" \o ToString(i), category |-> "c1",
            visits |-> IF i = 1 THEN 3 ELSE 1, addedToCart |-> FALSE]]]

\* the settings source: the fetch outcome, the cartAbandoned row, and whether
\* the page runs on a development host
Settings(fetch, enabled, environment, isDevelopment) ==
  [fetch |-> fetch, enabled |-> enabled, environment |-> environment,
   isDevelopment |-> isDevelopment]

InitWith(loads, carts, settings, queues) ==
  /\ \E l \in loads : now = l[1] /\ storage = l[2]
  /\ bootTime = now
  /\ analyticsInstance = "null"
  /\ analytics = CreateNewSession(0, "r0")
  /\ lastCall = [op |-> "none", threw |-> FALSE, note |-> ""]
  /\ storageFull = FALSE
  /\ cartStorage \in carts
  /\ cartAbandonTimer = Null
  /\ abandonTimers = {}
  /\ serverSaveTimeout = Null
  /\ saveTimers = {}
  /\ saveToServerRetryCount = 0
  /\ sends = EmptyBag
  /\ retryTimers = EmptyBag
  /\ queue \in queues
  /\ passes = EmptyBag
  /\ queueDue = Null
  /\ webhooks = EmptyBag
  /\ webhookSettings \in settings
  /\ sweeps = EmptyBag
  /\ sweepDue = Null
  /\ webhookLogs = <<>>
  /\ posts = <<>>
  /\ syncLog = [last |-> LogEntry("none", "", 0, FALSE, FALSE, 0),
                 responses |-> <<>>]
  /\ appended = <<>>
  /\ attempts = <<>>
  /\ calls = 0

-----------------------------------------------------------------------------
(* SpecRecorders: page load, then the recorders *)

InitRecorders ==
  InitWith({<<6000, AbsentItem>>, <<6000, CorruptItem>>,
            <<5000 + SESSION_MAX_AGE, Stringify(StoredSession(1))>>,
            <<5001 + SESSION_MAX_AGE, Stringify(StoredSession(1))>>,
            <<5000 + 25 * 60 * 60 * 1000, Stringify(StoredSession(1))>>,
            <<6000, Stringify(FullSession)>>},
           {"absent"},
           {Settings("ok", TRUE, "PRODUCTION", FALSE)},
           {<<>>})

NextRecorders ==
  \/ \E rnd \in Rands : UseAnalytics(rnd)
  \/ calls < MaxCalls /\ \E c \in Categories, id \in CategoryIds :
                            TrackCategoryVisit(c, id)
  \/ calls < MaxCalls /\ \E t \in Strings(MaxTermLen) : TrackSearch(t)
  \/ calls < MaxCalls /\ \E p \in Products, c \in Categories :
                            TrackProductView(p, c)
  \/ calls < MaxCalls /\ \E t \in CartTypes, p \in Products :
                            TrackCartEvent(t, p, 1)
  \/ calls < MaxCalls /\ TrackWhatsAppCollection(Whatsapp)
  \/ calls < MaxCalls /\ TrackOrderCompletion
  \/ \E b \in BOOLEAN : SetStorageFull(b)

SpecRecorders == InitRecorders /\ [][NextRecorders]_vars

-----------------------------------------------------------------------------
(* SpecAbandon: cart events, the armed timer and the sweep, with the        *)
(* webhook enabled, items in the persisted cart and a network that answers *)

MaxCartCalls == 2        \* cart events per run
AbandonHorizon == 90000  \* milliseconds after page load

InitAbandon ==
  InitWith({<<10000, AbsentItem>>, <<70000, Stringify(StoredSession(1))>>},
           {"itemsState"},
           {Settings("ok", TRUE, "PRODUCTION", FALSE)},
           {<<>>})

NextAbandon ==
  \/ \E rnd \in Rands : UseAnalytics(rnd)
  \/ calls < MaxCartCalls /\ TrackCartEvent("add", "p1", 1)
  \/ AbandonTimerFire
  \/ SweepTick
  \/ \E s \in BagToSet(sweeps) : SweepSettings(s)
  \/ \E s \in BagToSet(sweeps) : SweepResponse(s, TRUE)
  \/ \E w \in BagToSet(webhooks) : WebhookSettingsResolve(w)
  \/ \E w \in BagToSet(webhooks) : WebhookResponse(w, TRUE)
  \/ Tick(SWEEP_INTERVAL, AbandonHorizon)

SpecAbandon == InitAbandon /\ [][NextAbandon]_vars

-----------------------------------------------------------------------------
(* SpecSync: the debounce timer, the sync sends and their backoff *)

MaxSyncCalls == 2     \* recorder calls per run
SyncHorizon == 20000  \* milliseconds after page load

SyncOutcomes == {"ok", "http500", "loadFailed"}

InitSync ==
  InitWith({<<10000, AbsentItem>>},
           {"absent"},
           {Settings("ok", TRUE, "PRODUCTION", FALSE)},
           {<<>>})

NextSync ==
  \/ \E rnd \in Rands : UseAnalytics(rnd)
  \/ calls < MaxSyncCalls /\ TrackProductView("p1", "c1")
  \/ DebounceFire
  \/ RetryFire
  \/ \E s \in BagToSet(sends), o \in SyncOutcomes : SendResponse(s, o)
  \/ \E p \in BagToSet(passes) : PassResponse(p, "ok")
  \/ Tick(DEBOUNCE_DELAY, SyncHorizon)

SpecSync == InitSync /\ [][NextSync]_vars

-----------------------------------------------------------------------------
(* SpecFallback: sync sends answered by a failure or by the 503 fallback *)

MaxFallbackCalls == 1     \* recorder calls per run
FallbackHorizon == 20000  \* milliseconds after page load

FallbackOutcomes == {"fallback503", "unavailable503", "http500"}

InitFallback ==
  InitWith({<<10000, AbsentItem>>},
           {"absent"},
           {Settings("ok", TRUE, "PRODUCTION", FALSE)},
           {<<>>})

NextFallback ==
  \/ \E rnd \in Rands : UseAnalytics(rnd)
  \/ calls < MaxFallbackCalls /\ TrackProductView("p1", "c1")
  \/ DebounceFire
  \/ RetryFire
  \/ \E s \in BagToSet(sends), o \in FallbackOutcomes : SendResponse(s, o)
  \/ Tick(DEBOUNCE_DELAY, FallbackHorizon)

SpecFallback == InitFallback /\ [][NextFallback]_vars

-----------------------------------------------------------------------------
(* SpecSearch: searches, some of them blank, while time passes *)

MaxSearchCalls == 2   \* recorder calls per run
SearchHorizon == 4000 \* milliseconds after page load

SearchInputs == {<<>>, <<" ">>, <<" ", " ">>, <<"A">>, <<" ", "a">>}

InitSearch ==
  InitWith({<<10000, AbsentItem>>, <<6000, Stringify(StoredSession(1))>>},
           {"absent"},
           {Settings("ok", TRUE, "PRODUCTION", FALSE)},
           {<<>>})

NextSearch ==
  \/ \E rnd \in Rands : UseAnalytics(rnd)
  \/ calls < MaxSearchCalls /\ \E t \in SearchInputs : TrackSearch(t)
  \/ DebounceFire
  \/ \E s \in BagToSet(sends) : SendResponse(s, "ok")
  \/ Tick(DEBOUNCE_DELAY, SearchHorizon)

SpecSearch == InitSearch /\ [][NextSearch]_vars

-----------------------------------------------------------------------------
(* SpecQueue: the passes over a local queue that holds one item at page load *)

QueueHorizon == 120000  \* milliseconds after page load

QueueOutcomes == {"ok", "http500", "abort", "loadFailed"}

\* an item an earlier page load queued
QueuedItem(retries) ==
  [sessionId |-> StoredSession(0).sessionId, timestamp |-> 5000,
   data |-> Stringify(StoredSession(0)).value, retries |-> retries]

InitQueue ==
  InitWith({<<10000, AbsentItem>>},
           {"absent"},
           {Settings("ok", TRUE, "PRODUCTION", FALSE)},
           {<<QueuedItem(0)>>, <<QueuedItem(3)>>})

NextQueue ==
  \/ \E rnd \in Rands : UseAnalytics(rnd)
  \/ DebounceFire
  \/ \E s \in BagToSet(sends) : SendResponse(s, "ok")
  \/ \E p \in BagToSet(passes), o \in QueueOutcomes : PassResponse(p, o)
  \/ QueueIntervalFire
  \/ Tick(DEBOUNCE_DELAY, QueueHorizon)

SpecQueue == InitQueue /\ [][NextQueue]_vars

-----------------------------------------------------------------------------
(* SpecDetector: the detector with a cart that the storefront empties,      *)
(* order completion, a storage quota that fills up, and a settings row     *)
(* for the production or the test environment                              *)

MaxDetectorCalls == 2     \* recorder calls per run
DetectorHorizon == 90000  \* milliseconds after page load

InitDetector ==
  InitWith({<<10000, AbsentItem>>, <<70000, Stringify(StoredSession(1))>>},
           {"itemsState"},
           {Settings("ok", TRUE, "PRODUCTION", FALSE),
            Settings("ok", TRUE, "TEST", FALSE)},
           {<<>>})

NextDetector ==
  \/ \E rnd \in Rands : UseAnalytics(rnd)
  \/ calls < MaxDetectorCalls /\ \E t \in {"add", "remove"} : TrackCartEvent(t, "p1", 1)
  \/ calls < MaxDetectorCalls /\ TrackOrderCompletion
  \/ AbandonTimerFire
  \/ SweepTick
  \/ \E s \in BagToSet(sweeps) : SweepSettings(s)
  \/ \E s \in BagToSet(sweeps) : SweepResponse(s, TRUE)
  \/ \E w \in BagToSet(webhooks) : WebhookSettingsResolve(w)
  \/ \E w \in BagToSet(webhooks) : WebhookResponse(w, TRUE)
  \/ SetCartStorage("emptyState")
  \/ SetStorageFull(TRUE)
  \/ Tick(SWEEP_INTERVAL, DetectorHorizon)

SpecDetector == InitDetector /\ [][NextDetector]_vars

-----------------------------------------------------------------------------
(* SpecWebhook: the dispatches a recorder makes, under every settings       *)
(* source and a target that accepts or fails.  A fetch is answered in the  *)
(* end (the POST at the latest by its abort timer) and a timer runs down;  *)
(* time is followed only while a dispatch pauses                           *)

MaxWebhookCalls == 1   \* recorder calls per run

InitWebhook ==
  InitWith({<<10000, AbsentItem>>},
           {"absent"},
           {Settings("ok", TRUE, "PRODUCTION", FALSE),
            Settings("ok", TRUE, "TEST", TRUE),
            Settings("ok", FALSE, "PRODUCTION", FALSE),
            Settings("failed", FALSE, "TEST", FALSE),
            Settings("failed", TRUE, "PRODUCTION", TRUE)},
           {<<>>})

NextWebhook ==
  \/ \E rnd \in Rands : UseAnalytics(rnd)
  \/ calls < MaxWebhookCalls /\ TrackWhatsAppCollection(Whatsapp)
  \/ calls < MaxWebhookCalls /\ TrackOrderCompletion
  \/ \E w \in BagToSet(webhooks) : WebhookSettingsResolve(w)
  \/ \E w \in BagToSet(webhooks), ok \in BOOLEAN : WebhookResponse(w, ok)
  \/ \E w \in BagToSet(webhooks) : WebhookRetry(w)
  \/ SetStorageFull(TRUE)
  \/ PauseElapses

SpecWebhook ==
  /\ InitWebhook /\ [][NextWebhook]_vars
  /\ WF_vars(\E w \in BagToSet(webhooks) : WebhookSettingsResolve(w))
  /\ WF_vars(\E w \in BagToSet(webhooks), ok \in BOOLEAN : WebhookResponse(w, ok))
  /\ WF_vars(\E w \in BagToSet(webhooks) : WebhookRetry(w))
  /\ WF_vars(PauseElapses)

-----------------------------------------------------------------------------
(* SpecArming: page loads at which the threshold of a persisted cart        *)
(* activity is about to elapse, the clock advancing or not between the     *)
(* one-shot check and the arming                                           *)

MaxArmingCalls == 1     \* cart events per run
ArmingHorizon == 60000  \* milliseconds after page load

Lags == {0, 1}

InitArming ==
  InitWith({<<10000, AbsentItem>>,
            <<3001 + CART_ABANDON_TIME - 1, Stringify(StoredSession(1))>>,
            <<3001 + CART_ABANDON_TIME, Stringify(StoredSession(1))>>},
           {"itemsState", "emptyState"},
           {Settings("ok", TRUE, "PRODUCTION", FALSE)},
           {<<>>})

NextArming ==
  \/ \E rnd \in Rands, lag \in Lags : Construct(rnd, lag)
  \/ calls < MaxArmingCalls /\ TrackCartEvent("add", "p1", 1)
  \/ AbandonTimerFire
  \/ SweepTick
  \/ \E s \in BagToSet(sweeps) : SweepSettings(s)
  \/ \E s \in BagToSet(sweeps) : SweepResponse(s, TRUE)
  \/ \E w \in BagToSet(webhooks) : WebhookSettingsResolve(w)
  \/ \E w \in BagToSet(webhooks) : WebhookResponse(w, TRUE)
  \/ Tick(SWEEP_INTERVAL, ArmingHorizon)

SpecArming == InitArming /\ [][NextArming]_vars

-----------------------------------------------------------------------------
(* SpecGating: the armed timer and the sweep under settings rows for either *)
(* environment, in either spelling, disabled, or not fetched at all        *)

MaxGatingCalls == 1     \* cart events per run
GatingHorizon == 90000  \* milliseconds after page load

InitGating ==
  InitWith({<<10000, AbsentItem>>, <<70000, Stringify(StoredSession(1))>>},
           {"itemsState"},
           {Settings("ok", TRUE, "PRODUCTION", FALSE),
            Settings("ok", TRUE, "production", FALSE),
            Settings("ok", TRUE, "TEST", FALSE),
            Settings("ok", FALSE, "PRODUCTION", FALSE),
            Settings("failed", TRUE, "PRODUCTION", FALSE)},
           {<<>>})

NextGating ==
  \/ \E rnd \in Rands : UseAnalytics(rnd)
  \/ calls < MaxGatingCalls /\ TrackCartEvent("add", "p1", 1)
  \/ AbandonTimerFire
  \/ SweepTick
  \/ \E s \in BagToSet(sweeps) : SweepSettings(s)
  \/ \E s \in BagToSet(sweeps) : SweepResponse(s, TRUE)
  \/ \E w \in BagToSet(webhooks) : WebhookSettingsResolve(w)
  \/ \E w \in BagToSet(webhooks) : WebhookResponse(w, TRUE)
  \/ Tick(SWEEP_INTERVAL, GatingHorizon)

SpecGating == InitGating /\ [][NextGating]_vars

-----------------------------------------------------------------------------
(* SpecQueueCap: sync sends that fail for good while the local queue is     *)
(* full or one short of full, and a pass over the queue whose items the    *)
(* backend refuses                                                         *)

MaxCapCalls == 1     \* recorder calls per run
CapHorizon == 4000   \* milliseconds after page load

\* a queue earlier page loads left behind: n items, oldest first, with
\* retries from 0 to 5
StoredQueue(n) ==
  [i \in 1..n |-> [sessionId |-> StoredSession(0).sessionId,
                   timestamp |-> 100 + i,
                   data |-> Stringify(StoredSession(0)).value,
                   retries |-> i % 6]]

InitQueueCap ==
  InitWith({<<10000, AbsentItem>>},
           {"absent"},
           {Settings("ok", TRUE, "PRODUCTION", FALSE)},
           {StoredQueue(MAX_QUEUE_ITEMS), StoredQueue(MAX_QUEUE_ITEMS - 1)})

NextQueueCap ==
  \/ \E rnd \in Rands : UseAnalytics(rnd)
  \/ calls < MaxCapCalls /\ TrackProductView("p1", "c1")
  \/ DebounceFire
  \/ \E s \in BagToSet(sends) : SendResponse(s, "loadFailed")
  \/ \E p \in BagToSet(passes) : PassResponse(p, "http500")
  \/ Tick(DEBOUNCE_DELAY, CapHorizon)

SpecQueueCap == InitQueueCap /\ [][NextQueueCap]_vars

-----------------------------------------------------------------------------
(* Properties of the session store and the recorders (SpecRecorders) *)

RecorderOps == {"trackCategoryVisit", "trackSearch", "trackProductView",
                "trackCartEvent", "trackWhatsAppCollection",
                "trackOrderCompletion"}

\* the count field of the entry of s whose key field is k, 0 when there is none
CountOf(s, keyField, k, countField) ==
  LET hits == {i \in 1..Len(s) : s[i][keyField] = k}
  IN IF hits = {} THEN 0 ELSE s[CHOOSE i \in hits : TRUE][countField]

KeysUnique(s, keyField) ==
  \A i, j \in 1..Len(s) : s[i][keyField] = s[j][keyField] => i = j

\* C5: the cart-event log holds at most 100 entries, and they are exactly the
\* most recently appended events, in the order they were appended
C5_CartEventCap ==
  analyticsInstance = "real" =>
    LET log == analytics.cartEvents
    IN /\ Len(log) <= 100
       /\ Len(log) = Min(Len(appended), 100)
       /\ \A i \in 1..Len(log) : log[i] = appended[Len(appended) - Len(log) + i]

C5_Witness ==
  /\ lastCall.op = "trackCartEvent" /\ ~lastCall.threw
  /\ Len(appended) > 100
  /\ Len(analytics.cartEvents) = 100

\* raw search inputs and the key each must be recorded under
SearchExamples ==
  {<< <<" ", "A", " ">>, <<"a">> >>, << <<"a">>, <<"a">> >>,
   << <<"A", "a">>, <<"a", "a">> >>, << <<"a", " ", "A">>, <<"a", " ", "a">> >>,
   << <<" ", " ", "a">>, <<"a">> >>}

\* a stored search term is trimmed, lower-cased and not empty
IsNormalised(term) ==
  /\ term # <<>>
  /\ term[1] # " " /\ term[Len(term)] # " "
  /\ \A i \in 1..Len(term) : term[i] # "A"

C7_Keys ==
  analyticsInstance = "real" =>
    /\ KeysUnique(analytics.categoriesVisited, "name")
    /\ KeysUnique(analytics.searchTerms, "term")
    /\ KeysUnique(analytics.productsViewed, "id")
    /\ \A i \in 1..Len(analytics.searchTerms) :
         IsNormalised(analytics.searchTerms[i].term)

\* after is before with the count of one key incremented by exactly 1, the
\* key added with count 1 if it was not there, every other entry as it was
OneKeyCounted(before, after, keyField, countField) ==
  \E i \in 1..Len(after) :
    LET k == after[i][keyField]
        was == CountOf(before, keyField, k, countField)
    IN /\ after[i][countField] = was + 1
       /\ Len(after) = Len(before) + (IF was = 0 THEN 1 ELSE 0)
       /\ \A j \in 1..Len(before) :
            before[j][keyField] # k =>
              CountOf(after, keyField, before[j][keyField], countField)
                = before[j][countField]

C7_Step ==
  /\ calls' = calls + 1 /\ lastCall'.op = "trackCategoryVisit" /\ ~lastCall'.threw =>
       /\ OneKeyCounted(analytics.categoriesVisited,
                        analytics'.categoriesVisited, "name", "visits")
       /\ \A c \in Categories, id \in CategoryIds :
            TrackCategoryVisit(c, id) =>
              CountOf(analytics'.categoriesVisited, "name", c, "visits")
                = CountOf(analytics.categoriesVisited, "name", c, "visits") + 1
  /\ calls' = calls + 1 /\ lastCall'.op = "trackSearch" /\ ~lastCall'.threw =>
       /\ \/ analytics'.searchTerms = analytics.searchTerms
          \/ OneKeyCounted(analytics.searchTerms, analytics'.searchTerms,
                           "term", "count")
       /\ \A x \in SearchExamples :
            \* the first conjunct follows from the second; it spares the
            \* second on the steps of other inputs
            analytics'.searchTerms =
                 SortDesc(UpsertSearchTerm(analytics.searchTerms,
                                           Trim(ToLowerCase(x[1]))), "count")
              /\ TrackSearch(x[1]) =>
              CountOf(analytics'.searchTerms, "term", x[2], "count")
                = CountOf(analytics.searchTerms, "term", x[2], "count") + 1
  /\ calls' = calls + 1 /\ lastCall'.op = "trackProductView" /\ ~lastCall'.threw =>
       \A p \in Products, c \in Categories :
         TrackProductView(p, c)
           /\ (CountOf(analytics.productsViewed, "id", p, "visits") > 0
               \/ Len(analytics.productsViewed) < MAX_PRODUCTS_VIEWED) =>
           /\ OneKeyCounted(analytics.productsViewed,
                            analytics'.productsViewed, "id", "visits")
           /\ CountOf(analytics'.productsViewed, "id", p, "visits")
                = CountOf(analytics.productsViewed, "id", p, "visits") + 1

\* C7: no two entries of a collection share a key; recording a key that is
\* present increments its count by exactly 1 and adds no entry, and recording
\* a new key adds one entry with count 1 (so the same key twice from an empty
\* session gives one entry with count 2); '  Capinha  ' and 'capinha' are
\* recorded under the same key
C7_FindOrCreate == []C7_Keys /\ [][C7_Step]_vars

C7_Witness ==
  /\ analytics.sessionId # StoredSession(0).sessionId
  /\ analytics.searchTerms = <<[term |-> <<"a">>, count |-> 2]>>
  /\ lastCall.op = "trackSearch"

\* the instants at which a session last active at l may be loaded again
LoadTimes(l) ==
  {l, l + SESSION_MAX_AGE - 1, l + SESSION_MAX_AGE, l + SESSION_MAX_AGE + 1,
   l + 25 * 60 * 60 * 1000}

IsFreshSession(a) ==
  /\ a.categoriesVisited = <<>> /\ a.searchTerms = <<>>
  /\ a.productsViewed = <<>> /\ a.cartEvents = <<>>
  /\ a.lastCartActivity = 0
  /\ a.whatsappCollected = Null /\ a.whatsappCollectedAt = Null

\* C8: load() returns the persisted session unchanged when it was active at
\* most 24 hours ago, and otherwise a fresh session with another sessionId,
\* empty collections, lastCartActivity = 0 and no contact
C8_SessionExpiry ==
  /\ analyticsInstance = "real" /\ lastCall.op \in RecorderOps \cup {"useAnalytics"}
       /\ ~lastCall.threw =>
       /\ storage.kind = "json"
       /\ \A t \in LoadTimes(analytics.lastActivity), rnd \in Rands \cup {"r0"} :
            LET res == LoadAnalytics(storage, t, rnd)
            IN /\ ~res.threw
               /\ IF t - analytics.lastActivity <= 24 * 60 * 60 * 1000
                  THEN res.value = analytics
                  ELSE /\ res.value.sessionId # analytics.sessionId
                       /\ IsFreshSession(res.value)
  /\ lastCall.op = "useAnalytics" /\ lastCall.note \in {"loaded", "expired"} =>
       \* the constructor stamps lastActivity with the instant of the load
       IF analytics.lastActivity - StoredSession(0).lastActivity <= 24 * 60 * 60 * 1000
       THEN /\ analytics.sessionId = StoredSession(0).sessionId
            /\ analytics.cartEvents # <<>>
            /\ analytics.searchTerms = StoredSession(0).searchTerms
       ELSE /\ analytics.sessionId # StoredSession(0).sessionId
            /\ IsFreshSession(analytics)

C8_Witness ==
  /\ analyticsInstance = "real"
  /\ lastCall.op = "useAnalytics" /\ lastCall.note = "expired"
  /\ bootTime - StoredSession(0).lastActivity = 25 * 60 * 60 * 1000

\* C9: with the persisted session absent or unparseable, the first
\* useAnalytics() raises no error in load() and leaves a running engine with
\* a fresh session
C9_CorruptOrMissingStorage ==
  lastCall.op = "useAnalytics"
    /\ (lastCall.note = "absent" \/ storage.kind = "corrupt") =>
    /\ lastCall.note # "loadThrew"
    /\ analyticsInstance = "real"
    /\ analytics.sessionId[1] = analytics.lastActivity
    /\ IsFreshSession(analytics)

\* C10: no recorder call propagates an error to its caller when the write to
\* client storage fails
C10_PersistFailuresSwallowed ==
  lastCall.op \in RecorderOps => ~lastCall.threw

\* every entry of after that has the key of a flagged entry of before is
\* flagged
FlagsKept(before, after, keyField, flag) ==
  \A i \in {n \in 1..Len(before) : before[n][flag]} :
    \A k \in 1..Len(after) :
      after[k][keyField] = before[i][keyField] => after[k][flag]

\* the step is a trackCartEvent('add', p, ...) call that returned
AddReturned(p) ==
  /\ calls' = calls + 1
  /\ lastCall'.op = "trackCartEvent" /\ ~lastCall'.threw
  /\ Len(appended') = Len(appended) + 1
  /\ appended'[Len(appended')].type = "add"
  /\ appended'[Len(appended')].productId = p

C17_Step ==
  /\ \A p \in Products :
       AddReturned(p) =>
         \A i \in 1..Len(analytics'.productsViewed) :
           analytics'.productsViewed[i].id = p =>
             /\ analytics'.productsViewed[i].addedToCart
             /\ \A j \in 1..Len(analytics'.categoriesVisited) :
                  analytics'.categoriesVisited[j].name
                    = analytics'.productsViewed[i].category
                  => analytics'.categoriesVisited[j].hasCartItems
  /\ analyticsInstance = "real" =>
       /\ FlagsKept(analytics.productsViewed, analytics'.productsViewed,
                    "id", "addedToCart")
       /\ FlagsKept(analytics.categoriesVisited, analytics'.categoriesVisited,
                    "name", "hasCartItems")

\* C17: when trackCartEvent('add', p, ...) has returned, the entry of p in the
\* product collection has addedToCart = true and the entry of p's category
\* has hasCartItems = true; no operation sets either flag back to false
C17_CartFlags == [][C17_Step]_vars

C17_Witness ==
  /\ lastCall.op = "trackProductView" /\ ~lastCall.threw
  /\ \E i \in 1..Len(analytics.productsViewed) :
       /\ analytics.productsViewed[i].id = "p1"
       /\ analytics.productsViewed[i].visits = 2
       /\ analytics.productsViewed[i].addedToCart
  /\ \E j \in 1..Len(analytics.categoriesVisited) :
       /\ analytics.categoriesVisited[j].name = "c1"
       /\ analytics.categoriesVisited[j].hasCartItems

SortedDesc(s, field) ==
  \A i \in 1..(Len(s) - 1) : s[i][field] >= s[i + 1][field]

\* C18: the product collection has at most 50 entries and is sorted by visits
\* in non-increasing order; the category and search-term collections are
\* sorted by count in non-increasing order
C18_CapAndOrder ==
  analyticsInstance = "real" =>
    /\ Len(analytics.productsViewed) <= 50
    /\ SortedDesc(analytics.productsViewed, "visits")
    /\ SortedDesc(analytics.categoriesVisited, "visits")
    /\ SortedDesc(analytics.searchTerms, "count")

C18_Witness ==
  /\ lastCall.op = "trackProductView" /\ ~lastCall.threw
  /\ Len(analytics.productsViewed) = 50
  /\ \A i \in 1..Len(analytics.productsViewed) :
       analytics.productsViewed[i].id \notin Products

\* a term of spaces only
Blank(t) == \A i \in 1..Len(t) : t[i] = " "

C19_Step ==
  \A t \in SearchInputs :
    Blank(t) /\ TrackSearch(t) =>
      /\ analytics' = analytics
      /\ storage' = storage
      /\ saveTimers' = saveTimers /\ serverSaveTimeout' = serverSaveTimeout

\* C19: trackSearch with a term that is empty after trim and lower-casing
\* leaves the session in memory and in storage as it was and schedules no
\* server sync
C19_EmptySearchIsNoOp == [][C19_Step]_vars

-----------------------------------------------------------------------------
(* Properties of the abandonment detector (SpecAbandon) *)

\* the first POST of each cartAbandoned notification (a retry of sendWebhook
\* is not another notification)
Notifications ==
  {i \in 1..Len(posts) : posts[i].event = "cartAbandoned" /\ posts[i].attempt = 0}

\* C1: for one cart activity at most one cartAbandoned notification is
\* dispatched, whichever way the armed timer and the sweep interleave
C1_FireOnce ==
  \A i, j \in Notifications :
    posts[i].activity = posts[j].activity => i = j

\* C2: no cartAbandoned notification is dispatched, by the timer or by a
\* sweep, earlier than the threshold after the most recent cart event
C2_NoEarlyDispatch ==
  \A i \in Notifications :
    posts[i].at >= posts[i].lastEvent + CART_ABANDON_TIME

C16_Step ==
  /\ analyticsInstance = "real" =>
       /\ analytics'.lastActivity >= analytics.lastActivity
       /\ analytics'.sessionId = analytics.sessionId
  /\ analyticsInstance = "real" /\ storage.kind = "json" /\ storage'.kind = "json" =>
       /\ Parse(storage').lastActivity >= Parse(storage).lastActivity
       /\ Parse(storage').sessionId = Parse(storage).sessionId

\* C16: once the engine runs, lastActivity never decreases and sessionId
\* never changes, in the session in memory and in the session in storage,
\* whatever the recorders, the timer callbacks and the sweeps do
C16_SessionInvariants == [][C16_Step]_vars

-----------------------------------------------------------------------------
(* Properties of the sync engine (SpecSync) *)

Failed(e) == e.outcome \notin {"ok", "fallback503"}

\* the answer to a sync send is the third failure in a row
ThirdFailure ==
  /\ syncLog.last.kind = "response"
  /\ Len(syncLog.responses) = 3
  /\ \A i \in 1..3 : Failed(syncLog.responses[i])

\* C3: when a sync call has failed for the third time in a row the session
\* snapshot is queued and the retry counter is 0 afterwards
C3_RetryCeiling ==
  ThirdFailure =>
    /\ syncLog.last.queued
    /\ saveToServerRetryCount = 0

\* C4: at most one debounce timer is pending, and the expiry of the debounce
\* timer starts one sync send
C4_DebounceCoalescing ==
  /\ Cardinality(saveTimers) <= 1
  /\ syncLog.last.kind = "debounce" => syncLog.last.posted

\* the step is the answer to a sync send, and the answer is outcome
Answered(outcome) ==
  /\ \E s \in BagToSet(sends) : sends' = sends (-) SetToBag({s})
  /\ syncLog'.last.kind = "response" /\ syncLog'.last.outcome = outcome

C15_Step ==
  Answered("fallback503") =>
    /\ retryTimers' = retryTimers
    /\ queue' = queue
    /\ saveToServerRetryCount' = 0

\* C15: the answer 503 with the fallback flag schedules no retry, appends
\* nothing to the local queue and leaves the retry counter at 0
C15_FallbackIsNoError ==
  /\ [](syncLog.last.kind = "response" /\ syncLog.last.outcome = "fallback503"
          => saveToServerRetryCount = 0 /\ ~syncLog.last.queued)
  /\ [][C15_Step]_vars

C15_Witness ==
  /\ syncLog.last.kind = "response" /\ syncLog.last.outcome = "fallback503"
  /\ Len(syncLog.responses) >= 2
  /\ syncLog.responses[Len(syncLog.responses) - 1].outcome = "http500"
  /\ syncLog.responses[Len(syncLog.responses) - 1].count = 2

C20_Step ==
  \A o \in FetchOutcomes \ {"ok", "fallback503"} :
    Answered(o) =>
      LET count == saveToServerRetryCount + 1
      IN /\ saveToServerRetryCount' = count
         /\ IF count < 3
            THEN /\ retryTimers' = retryTimers (+) SetToBag({now + 2500 * 2^count})
                 /\ queue' = queue
            ELSE /\ retryTimers' = retryTimers
                 /\ Len(queue') = Len(queue) + 1

\* C20: a failed sync send that is not the 503 fallback increments the retry
\* counter; below 3 it schedules exactly one retry after 2500 ms * 2^counter
\* and queues nothing, from 3 on it schedules none and queues the snapshot
\* exactly once
C20_FailureTransition == [][C20_Step]_vars

-----------------------------------------------------------------------------
(* Properties of the local queue (SpecQueue) *)

\* the failed attempts made on the item queued at time t
FailedAttempts(t) == Cardinality({i \in 1..Len(attempts) : attempts[i] = t})

\* C6: every failed attempt on a queue item increments its retries, and no
\* item goes through more than 6 failed passes
C6_QueuePruning ==
  /\ passes = EmptyBag =>
       \A k \in 1..Len(queue) :
         queue[k].retries >= QueuedItem(0).retries
           + FailedAttempts(queue[k].timestamp)
  /\ \A k \in 1..Len(attempts) : FailedAttempts(attempts[k]) <= 6

-----------------------------------------------------------------------------
(* Properties of the detector's firing and of the dispatcher (SpecDetector, *)
(* SpecWebhook)                                                            *)

\* the step starts one sendWebhook('cartAbandoned') call from path
DispatchedBy(path) ==
  \E w \in BagToSet(webhooks') :
    /\ w.event = "cartAbandoned" /\ w.path = path /\ w.pc = "settings"
    /\ CopiesIn(w, webhooks') = CopiesIn(w, webhooks) + 1

\* the step starts no sendWebhook('cartAbandoned') call
NoneDispatched ==
  \A w \in BagToSet(webhooks') :
    w.event = "cartAbandoned" => CopiesIn(w, webhooks') <= CopiesIn(w, webhooks)

\* the one-shot check of a page load finds lastCartActivity set and the
\* threshold elapsed
InitCheckFires ==
  /\ analyticsInstance = "null" /\ analyticsInstance' = "real"
  /\ storage.kind = "json"
  /\ Parse(storage).lastCartActivity > 0
  /\ now - Parse(storage).lastCartActivity >= CART_ABANDON_TIME
  /\ now - Parse(storage).lastActivity <= SESSION_MAX_AGE

C11_Step ==
  /\ AbandonTimerFire =>
       IF CartHasItems
       THEN DispatchedBy("timer") /\ analytics'.lastCartActivity = 0
       ELSE /\ webhooks' = webhooks
            /\ analytics' = analytics
            /\ storage' = storage
  /\ InitCheckFires =>
       IF CartHasItems
       THEN DispatchedBy("init") /\ analytics'.lastCartActivity = 0
       ELSE /\ webhooks' = webhooks
            /\ analytics'.lastCartActivity = Parse(storage).lastCartActivity
  /\ \A s \in BagToSet(sweeps) :
       SweepResponse(s, TRUE) /\ ~storageFull =>
         Parse(storage').lastCartActivity = 0

\* C11: a firing of the detector with items in the persisted cart dispatches
\* a cartAbandoned webhook and resets lastCartActivity to 0; a firing with an
\* empty cart dispatches nothing and leaves the session, lastCartActivity
\* included, as it was
C11_FiringOutcome == [][C11_Step]_vars

C12_Cancelled ==
  lastCall.op = "trackOrderCompletion" =>
    abandonTimers = {} /\ cartAbandonTimer = Null

C12_Step ==
  calls' = calls + 1 /\ lastCall'.op = "trackOrderCompletion" => NoneDispatched

\* C12: once trackOrderCompletion was called no abandonment timer armed
\* before it is pending, so its callback cannot run afterwards, and the call
\* itself starts no cartAbandoned dispatch
C12_Disarming == []C12_Cancelled /\ [][C12_Step]_vars

\* the POSTs of one sendWebhook call
SameDispatch(a, b) ==
  /\ a.event = b.event /\ a.call = b.call
  /\ a.path = b.path /\ a.activity = b.activity

C13_Bounded ==
  /\ \A w \in BagToSet(webhooks) : w.retryCount <= 2
  /\ \A i \in 1..Len(posts) : posts[i].attempt <= 2
  /\ \A i, j \in 1..Len(posts) :
       i < j /\ SameDispatch(posts[i], posts[j]) =>
         /\ posts[j].attempt > posts[i].attempt
         /\ posts[j].at >= posts[i].at + 2000

\* a recorder call that throws does so on a failed storage write
C13_Step ==
  calls' = calls + 1 /\ lastCall'.threw => storageFull

\* C13: a dispatch makes at most 3 POSTs (attempts 0, 1 and 2), each at least
\* 2 seconds after the one before; it makes no attempt after the third; every
\* dispatch ends; and no dispatch makes the recorder that started it throw
C13_TransportBound ==
  /\ []C13_Bounded
  /\ [][C13_Step]_vars
  /\ <>[](webhooks = EmptyBag)

C13_Witness ==
  /\ webhooks = EmptyBag
  /\ \E i \in 1..Len(posts) :
       /\ posts[i].attempt = 2 /\ posts[i].event = "orderCompleted"
       /\ posts[i].at >= bootTime + 2 * WEBHOOK_RETRY_PAUSE

\* C14: no POST goes to a webhook target and no delivery-log entry is written
\* for an event type whose resolved configuration is disabled
C14_DisabledIsSilent ==
  ~WebhookConfig(webhookSettings).enabled =>
    posts = <<>> /\ webhookLogs = <<>>

-----------------------------------------------------------------------------
(* Properties of the arming of the detector (SpecArming, SpecDetector,      *)
(* SpecAbandon)                                                            *)

\* the step arms the detector: a page load that built the engine, or a
\* trackCartEvent call that returned
ArmingStep ==
  \/ analyticsInstance = "null" /\ analyticsInstance' = "real"
  \/ calls' = calls + 1 /\ lastCall'.op = "trackCartEvent" /\ ~lastCall'.threw

C21_Step ==
  ArmingStep /\ CartHasItems =>
    /\ \A d \in abandonTimers' : d > now'
    /\ ~ /\ analytics'.lastCartActivity > 0
         /\ now' - analytics'.lastCartActivity >= CART_ABANDON_TIME
         /\ abandonTimers' = {}

\* C21: an arming step (page load or cart event) with items in the persisted
\* cart schedules no timer that is already due, and does not end with
\* lastCartActivity > 0, the threshold elapsed and no timer pending: with the
\* threshold elapsed it has fired, which resets lastCartActivity to 0
C21_ExpiredArming == [][C21_Step]_vars

\* C22: once the engine runs the detector is Idle (lastCartActivity = 0 and
\* no abandonment timer pending) or Armed (lastCartActivity > 0 and exactly
\* one abandonment timer pending)
C22_DetectorState ==
  analyticsInstance = "real" =>
    \/ analytics.lastCartActivity = 0 /\ abandonTimers = {}
    \/ analytics.lastCartActivity > 0 /\ Cardinality(abandonTimers) = 1

\* the step is a trackCartEvent call that returned
CartEventReturned ==
  calls' = calls + 1 /\ lastCall'.op = "trackCartEvent" /\ ~lastCall'.threw

\* the step runs the callback of the abandonment timer due at d
TimerRan(d) ==
  /\ d \in abandonTimers /\ abandonTimers' = abandonTimers \ {d}
  /\ calls' = calls /\ lastCall' = lastCall

C23_Step ==
  /\ CartEventReturned =>
       /\ analytics'.lastCartActivity = now'
       /\ abandonTimers' = {analytics'.lastCartActivity + CART_ABANDON_TIME}
       /\ cartAbandonTimer' = analytics'.lastCartActivity + CART_ABANDON_TIME
  /\ \A d \in abandonTimers :
       TimerRan(d) => d = LastEventTime + CART_ABANDON_TIME

C24_SweepEqualsTimer ==
  \A i \in 1..Len(posts) :
    posts[i].event = "cartAbandoned" =>
      IF posts[i].path = "sweep"
      THEN /\ WebhookConfig(webhookSettings).enabled
           /\ posts[i].target = DispatcherTarget(webhookSettings)
      ELSE /\ SweepEnabled(webhookSettings)
           /\ posts[i].target = SweepTarget(webhookSettings)

-----------------------------------------------------------------------------
(* Properties of the local queue under load (SpecQueueCap, SpecSync) *)

\* the step is a sync call that hands its snapshot to the local queue
EnqueueStep ==
  /\ syncLog'.last.queued
  /\ \/ sends' # sends
     \/ retryTimers' # retryTimers
     \/ saveTimers' # saveTimers /\ serverSaveTimeout' = serverSaveTimeout

C25_Step ==
  EnqueueStep =>
    LET dropped == Len(queue) + 1 - Len(queue')
    IN /\ Len(queue') = Min(Len(queue) + 1, 50)
       /\ queue'[Len(queue')].timestamp = now
       /\ queue'[Len(queue')].sessionId = analytics.sessionId
       /\ queue'[Len(queue')].retries = 0
       /\ \A k \in 1..(Len(queue') - 1) : queue'[k] = queue[k + dropped]

\* C25: the persisted queue never holds more than 50 items; an enqueue
\* appends the new item at the end and, beyond 50, drops items from the front
\* (the oldest), whatever their retries
C25_QueueCap ==
  /\ [](Len(queue) <= 50)
  /\ [][C25_Step]_vars

C25_Witness ==
  /\ syncLog.last.queued
  /\ Len(queue) = 50
  /\ queue[50].timestamp = now /\ queue[50].retries = 0
  /\ queue[1].timestamp = StoredQueue(50)[3].timestamp
  /\ queue[1].retries >= 3

-----------------------------------------------------------------------------
(* Properties of the sync engine after failures (SpecSync) *)

\* the step is the expiry of the debounce timer, 2 seconds after the last
\* persist
DebounceExpired ==
  /\ saveTimers' # saveTimers /\ serverSaveTimeout' = serverSaveTimeout
  /\ syncLog'.last.kind = "debounce"

C26_Step ==
  DebounceExpired =>
    \E s \in BagToSet(sends') : CopiesIn(s, sends') = CopiesIn(s, sends) + 1

\* C26: whatever sync sends failed before, and also after a snapshot went to
\* the local queue, the expiry of the debounce timer starts a POST to the
\* sync endpoint
C26_SyncNeverDisabled == [][C26_Step]_vars

\* C27: the retry counter of the sync engine is always between 0 and 3
C27_CounterBound ==
  saveToServerRetryCount >= 0 /\ saveToServerRetryCount <= 3

\* the step is the write of the queue that ends pass p, the only pass in
\* progress
LastPassWrote(p) ==
  /\ passes = SetToBag({p}) /\ passes' = EmptyBag

\* the queue items with the identity of item
Same(q, item) ==
  {k \in 1..Len(q) : q[k].sessionId = item.sessionId
                        /\ q[k].timestamp = item.timestamp}

C28_Step ==
  \A p \in BagToSet(passes) :
    LastPassWrote(p) /\ ~storageFull =>
      \A k \in 1..Len(queue) :
        Same(p.read, queue[k]) = {} => Same(queue', queue[k]) # {}

\* C28: an item that is in the persisted queue when the last pass in progress
\* writes the queue back, and that the pass did not read (it was appended
\* after the pass had read the queue), is in the persisted queue after that
\* write
C28_NoLostEnqueue == [][C28_Step]_vars

-----------------------------------------------------------------------------
(* Properties of the detector after an order (SpecDetector) *)

\* the step is the POST of sweep s
SweepPosted(s) ==
  /\ s.pc = "settings"
  /\ sweeps' = (sweeps (-) SetToBag({s})) (+) SetToBag({[s EXCEPT !.pc = "post"]})

\* the step starts no sendWebhook('cartAbandoned') call (a call in progress
\* may go on)
NoneStarted ==
  \A w \in BagToSet(webhooks') :
    w.event = "cartAbandoned" /\ w.pc = "settings" /\ w.retryCount = 0 =>
      CopiesIn(w, webhooks') <= CopiesIn(w, webhooks)

C29_Step ==
  lastCall.op = "trackOrderCompletion" /\ ~lastCall.threw /\ calls' = calls =>
    /\ NoneStarted
    /\ \A s \in BagToSet(sweeps) :
         s.analytics.lastActivity >= analytics.lastActivity => ~SweepPosted(s)

\* C29: while trackOrderCompletion is the most recent recorder call, no
\* sendWebhook('cartAbandoned') call is started and no sweep that read the
\* session after the completion POSTs cartAbandoned
C29_NoAbandonAfterOrder == [][C29_Step]_vars

-----------------------------------------------------------------------------
(* Properties of the product collection at its cap (SpecRecorders) *)

C30_Step ==
  calls' = calls + 1 /\ lastCall'.op = "trackProductView" /\ ~lastCall'.threw =>
    \A p \in Products, c \in Categories :
      TrackProductView(p, c) =>
        CountOf(analytics'.productsViewed, "id", p, "visits") >= 1

\* C30: when trackProductView(id, ...) has returned, the product collection
\* holds an entry for id with visits >= 1, also when it held 50 other
\* products before the call
C30_ViewRecorded == [][C30_Step]_vars

=============================================================================
